---- MODULE Spec2Model ----
(***************************************************************************)
(* Model of tmap_defectdetector/model/tflow.py: the train/test split of    *)
(* CNNModel and the colour/shape helpers, the build/compile/fit/evaluate   *)
(* pipeline and the orchestration of CNNModelELPV.                         *)
(*                                                                         *)
(* A DataFrame is a sequence of rows [id, type, q, img]; an image is       *)
(* [shape, px]: its numpy shape and an abstract pixel content.  Quality    *)
(* scores are fixed-point numbers in units of 1e-8 (ScoreScale = 1.0).     *)
(* Every method is an operator from the object's state (a record) to the   *)
(* state after the call; a raised exception is the field err, and calls    *)
(* is the log of the calls made on the network and the plotting helpers.   *)
(***************************************************************************)
EXTENDS Integers, Sequences, FiniteSets, TLC

\* data is the dataset's frame; training_data .. net are the fields of the
\* model object under test; gray_called notes that its grayscale conversion
\* was entered; last is the latest call: its name, arguments, exception,
\* call log and result.
VARIABLES data, training_data, test_data, training_frac,
          grayscale, binary_colors, compiled, fitted, net,
          gray_called, last

vars == <<data, training_data, test_data, training_frac,
          grayscale, binary_colors, compiled, fitted, net,
          gray_called, last>>

(* ------------------------------ bounds -------------------------------- *)

\* rows of the dataset handed to the constructor
MaxInitRows == 3

\* rows a dataset may reach by amplification
MaxRows == 4

(* ------------------------------ numbers ------------------------------- *)

ScoreScale == 10 ^ 8

\* CNNModel.FLOAT_COMP_TOL = 1e-8
FLOAT_COMP_TOL == 1

\* numpy.isclose's default rtol = 1e-5, as a divisor
RtolDivisor == 100000

\* the review threshold 0.01
ReviewThreshold == ScoreScale \div 100

Abs(x) == IF x < 0 THEN -x ELSE x

\* F(v), with v evaluated once
Let(v, F(_)) == CHOOSE r \in {F(x) : x \in {v}} : TRUE

(* numpy compares in float64. A natural number is held here as its      *)
(* digits to the base 2^15, the lowest first and no zero on top, and a   *)
(* float64 as a mantissa m and an exponent e, the value m * 2^e.         *)

\* the significant bits of a float64
MantissaBits == 53

\* the bits of a digit
LimbBits == 15

\* the digits a decimal is carried to, below the point, before it is rounded
GuardLimbs == 6

LimbBase == 2 ^ LimbBits

RECURSIVE LimbsOf(_)
LimbsOf(n) == IF n = 0 THEN <<>> ELSE <<n % LimbBase>> \o LimbsOf(n \div LimbBase)

RECURSIVE LimbNorm(_)
LimbNorm(x) ==
    IF x # <<>> /\ x[Len(x)] = 0 THEN LimbNorm(SubSeq(x, 1, Len(x) - 1)) ELSE x

LimbAt(x, i) == IF i <= Len(x) THEN x[i] ELSE 0

RECURSIVE AddFrom(_, _, _, _)
AddFrom(x, y, i, c) ==
    IF i > Len(x) /\ i > Len(y) THEN (IF c > 0 THEN <<c>> ELSE <<>>)
    ELSE Let(LimbAt(x, i) + LimbAt(y, i) + c,
             LAMBDA s : <<s % LimbBase>> \o AddFrom(x, y, i + 1, s \div LimbBase))

\* x + y
LimbAdd(x0, y0) ==
    Let(x0, LAMBDA x : Let(y0, LAMBDA y : AddFrom(x, y, 1, 0)))

RECURSIVE SubFrom(_, _, _, _)
SubFrom(x, y, i, c) ==
    IF i > Len(x) THEN <<>>
    ELSE Let(LimbAt(x, i) - LimbAt(y, i) - c,
             LAMBDA s : <<s % LimbBase>>
                            \o SubFrom(x, y, i + 1, IF s < 0 THEN 1 ELSE 0))

\* x - y, for x >= y
LimbSub(x0, y0) ==
    Let(x0, LAMBDA x : Let(y0, LAMBDA y : LimbNorm(SubFrom(x, y, 1, 0))))

RECURSIVE CmpFrom(_, _, _)
CmpFrom(x, y, i) ==
    IF i = 0 THEN 0
    ELSE IF x[i] # y[i] THEN (IF x[i] < y[i] THEN -1 ELSE 1)
    ELSE CmpFrom(x, y, i - 1)

\* -1, 0 or 1 as x is less than, equal to or greater than y
LimbCmp(x0, y0) ==
    Let(x0, LAMBDA x : Let(y0, LAMBDA y :
        IF Len(x) # Len(y) THEN (IF Len(x) < Len(y) THEN -1 ELSE 1)
        ELSE CmpFrom(x, y, Len(x))))

RECURSIVE MulSmallFrom(_, _, _, _)
MulSmallFrom(x, k, i, c) ==
    IF i > Len(x) THEN (IF c > 0 THEN <<c>> ELSE <<>>)
    ELSE Let(x[i] * k + c,
             LAMBDA s : <<s % LimbBase>> \o MulSmallFrom(x, k, i + 1, s \div LimbBase))

\* x * k, for a number k < 2^15
LimbMulSmall(x0, k) ==
    IF k = 0 THEN <<>> ELSE Let(x0, LAMBDA x : MulSmallFrom(x, k, 1, 0))

\* x * 2^(15 * n)
LimbShift(x, n) == IF x = <<>> THEN <<>> ELSE [i \in 1..n |-> 0] \o x

\* x * 2^k
LimbShl(x0, k) ==
    Let(x0, LAMBDA x :
        LimbShift(LimbMulSmall(x, 2 ^ (k % LimbBits)), k \div LimbBits))

RECURSIVE MulFrom(_, _, _)
MulFrom(x, y, i) ==
    IF i > Len(y) THEN <<>>
    ELSE LimbAdd(LimbShift(LimbMulSmall(x, y[i]), i - 1), MulFrom(x, y, i + 1))

\* x * y
LimbMul(x0, y0) ==
    Let(x0, LAMBDA x : Let(y0, LAMBDA y : MulFrom(x, y, 1)))

\* long division of x by the number d <= 2^15: the remainder, then the
\* quotient's digits
RECURSIVE DivFrom(_, _, _, _)
DivFrom(x, d, i, rem) ==
    IF i = 0 THEN <<rem>>
    ELSE Let(rem * LimbBase + x[i],
             LAMBDA v : Append(DivFrom(x, d, i - 1, v % d), v \div d))

\* [q |-> x \div d, r |-> whether anything is left]
LimbDivSmall(x0, d) ==
    Let(x0, LAMBDA x :
        Let(DivFrom(x, d, Len(x), 0),
            LAMBDA qr : [q |-> LimbNorm(Tail(qr)), r |-> Head(qr) > 0]))

\* the same for a power of ten: a division by ten for every zero of it
RECURSIVE LimbDivPow10(_, _)
LimbDivPow10(x0, p10) ==
    IF p10 = 1 THEN [q |-> x0, r |-> FALSE]
    ELSE Let(LimbDivSmall(x0, 10),
             LAMBDA d1 :
                 Let(LimbDivPow10(d1.q, p10 \div 10),
                     LAMBDA d2 : [q |-> d2.q, r |-> d1.r \/ d2.r]))

\* [q |-> x \div 2^k, r |-> whether anything is left]
LimbShr(x0, k) ==
    Let(x0, LAMBDA x :
        LET n == k \div LimbBits
        IN  IF n >= Len(x) THEN [q |-> <<>>, r |-> x # <<>>]
            ELSE Let(LimbDivSmall(SubSeq(x, n + 1, Len(x)), 2 ^ (k % LimbBits)),
                     LAMBDA d : [q |-> d.q,
                                 r |-> d.r \/ \E i \in 1..n : x[i] # 0]))

RECURSIVE BitLenOf(_)
BitLenOf(n) == IF n = 0 THEN 0 ELSE 1 + BitLenOf(n \div 2)

\* the number of bits of x
LimbBitLen(x) ==
    IF x = <<>> THEN 0 ELSE LimbBits * (Len(x) - 1) + BitLenOf(x[Len(x)])

\* n * 2^e rounded to the nearest float64, a tie to the even mantissa: h is
\* the mantissa with the bit below it, the half
RoundBits(n0, e) ==
    Let(n0, LAMBDA n :
        IF LimbBitLen(n) <= MantissaBits THEN [m |-> n, e |-> e]
        ELSE Let(LimbShr(n, LimbBitLen(n) - MantissaBits - 1),
                 LAMBDA h :
                     LET up == /\ h.q[1] % 2 = 1
                               /\ (h.r \/ (h.q[1] \div 2) % 2 = 1)
                         m  == LimbDivSmall(h.q, 2).q
                     IN  [m |-> IF up THEN LimbAdd(m, <<1>>) ELSE m,
                          e |-> e + LimbBitLen(n) - MantissaBits]))

\* the float64 of the literal p/q, for a number p >= 0 and a power of ten
\* q: the quotient carried to GuardLimbs digits below the point, with a last
\* bit that says whether anything was left
FloatOfDecimal(p, q) ==
    IF p = 0 THEN [m |-> <<>>, e |-> 0]
    ELSE Let(LimbDivPow10(LimbShift(LimbsOf(p), GuardLimbs), q),
             LAMBDA d : RoundBits(LimbAdd(LimbMulSmall(d.q, 2),
                                          IF d.r THEN <<1>> ELSE <<>>),
                                  -(GuardLimbs * LimbBits + 1)))

Min2(a, b) == IF a < b THEN a ELSE b

\* the mantissa of x at the exponent e <= x.e
MantissaAt(x, e) == LimbShl(x.m, x.e - e)

\* x + y in float64
FloatAdd(x0, y0) ==
    Let(x0, LAMBDA x : Let(y0, LAMBDA y :
        Let(Min2(x.e, y.e),
            LAMBDA e : RoundBits(LimbAdd(MantissaAt(x, e), MantissaAt(y, e)), e))))

\* x <= y
FloatLeq(x0, y0) ==
    Let(x0, LAMBDA x : Let(y0, LAMBDA y :
        Let(Min2(x.e, y.e),
            LAMBDA e : LimbCmp(MantissaAt(x, e), MantissaAt(y, e)) <= 0)))

\* |x - y| in float64
FloatAbsDiff(x0, y0) ==
    Let(x0, LAMBDA x : Let(y0, LAMBDA y :
        Let(Min2(x.e, y.e),
            LAMBDA e :
                IF FloatLeq(x, y)
                THEN RoundBits(LimbSub(MantissaAt(y, e), MantissaAt(x, e)), e)
                ELSE RoundBits(LimbSub(MantissaAt(x, e), MantissaAt(y, e)), e))))

\* x * y in float64
FloatMul(x0, y0) ==
    Let(x0, LAMBDA x : Let(y0, LAMBDA y :
        RoundBits(LimbMul(x.m, y.m), x.e + y.e)))

\* abs(a - b) in float64, for the scores a and b
FloatDistance(a, b) ==
    IF (a < 0) = (b < 0)
    THEN FloatAbsDiff(FloatOfDecimal(Abs(a), ScoreScale),
                      FloatOfDecimal(Abs(b), ScoreScale))
    ELSE FloatAdd(FloatOfDecimal(Abs(a), ScoreScale),
                  FloatOfDecimal(Abs(b), ScoreScale))

\* abs(a - b) <= atol + rtol * abs(b), as float64 computes it
Float64IsClose(a, b, atol) ==
    Let(FloatMul(FloatOfDecimal(1, RtolDivisor), FloatOfDecimal(Abs(b), ScoreScale)),
        LAMBDA rb :
            Let(FloatOfDecimal(Abs(atol), ScoreScale),
                LAMBDA t :
                    IF atol >= 0 THEN FloatLeq(FloatDistance(a, b), FloatAdd(t, rb))
                    ELSE /\ FloatLeq(t, rb)
                         /\ FloatLeq(FloatDistance(a, b), FloatAbsDiff(rb, t))))

\* the two sides of the comparison are the same real number, and are not
\* the float64 of one literal, as they are for b = 0
OnTheBoundary(a, b, atol) ==
    /\ b # 0
    /\ Abs(b) % RtolDivisor = 0
    /\ Abs(a - b) - atol = Abs(b) \div RtolDivisor

\* numpy.isclose(a, b, atol=atol): |a - b| <= atol + rtol * |b|. Off the
\* boundary the two sides differ by at least 1e-13 and float64's rounding
\* moves neither by more than 1e-14, so the comparison of the exact numbers
\* is the one float64 makes; on the boundary the rounding decides.
IsClose(a, b, atol) ==
    IF OnTheBoundary(a, b, atol) THEN Float64IsClose(a, b, atol)
    ELSE Abs(a - b) <= atol + (Abs(b) \div RtolDivisor)

\* Python's round(num/den): to the nearest integer, a half to the even one
RoundHalfEven(num, den) ==
    LET fl == num \div den
        r2 == 2 * (num % den)
    IN  IF r2 < den THEN fl
        ELSE IF r2 > den THEN fl + 1
        ELSE IF fl % 2 = 0 THEN fl ELSE fl + 1

RECURSIVE Prod(_)
Prod(s) == IF s = <<>> THEN 1 ELSE Head(s) * Prod(Tail(s))

Range(s) == {s[i] : i \in 1..Len(s)}

Map(F(_), s) == [i \in 1..Len(s) |-> F(s[i])]

(* --------------------------- images and rows -------------------------- *)

Img(shape, px) == [shape |-> shape, px |-> px]

\* numpy.squeeze: every dimension of size 1 is removed
NpSqueeze(img) ==
    [img EXCEPT !.shape = SelectSeq(img.shape, LAMBDA d : d # 1)]

\* the shape img.reshape(*img.shape[:2], 1) asks for
UnsqueezedShape(img) ==
    SubSeq(img.shape, 1, Min2(2, Len(img.shape))) \o <<1>>

\* reshape raises a ValueError when the sizes differ
CanUnsqueeze(img) == Prod(UnsqueezedShape(img)) = Prod(img.shape)

_unsqueeze_img(img) == [img EXCEPT !.shape = UnsqueezedShape(img)]

\* image.color.rgb_to_grayscale: defined on H x W x 3 images, the channel
\* dimension is reduced away
IsRgbImage(img) == Len(img.shape) = 3 /\ img.shape[3] = 3

rgb_to_grayscale(img) ==
    Img(SubSeq(img.shape, 1, 2), img.px \div 3)

\* image.color.grayscale_to_binary: a threshold to black or white, shape kept
grayscale_to_binary(img) ==
    Img(img.shape, IF img.px >= 2 THEN 255 ELSE 0)

\* the images of a frame: df.loc[:, img_col]
Images(df) == [i \in 1..Len(df) |-> df[i].img]

\* the quality labels of a frame: df.loc[:, quality_col]
Labels(df) == [i \in 1..Len(df) |-> df[i].q]

\* df.loc[:, img_col] = df.loc[:, img_col].apply(F)
ApplyToImages(F(_), df) ==
    [i \in 1..Len(df) |-> [df[i] EXCEPT !.img = F(df[i].img)]]

Shapes(df) == {df[i].img.shape : i \in 1..Len(df)}

(* ----------------------------- exceptions ------------------------------ *)

Ok(s) == s.err = "none"

Raise(s, e) == [s EXCEPT !.err = e]

\* the statements F after the statements that gave s: skipped when those
\* raised
Then(s, F(_)) == Let(s, LAMBDA x : IF Ok(x) THEN F(x) ELSE x)

\* the call log of the network, the device context and the plot helpers
Call(s, fn, x, y) ==
    [s EXCEPT !.calls = Append(@, [fn |-> fn, dev |-> s.dev, x |-> x, y |-> y])]

NoRet == <<>>

None == [kind |-> "None"]

(* ------------------------- CNNModel: the split ------------------------ *)

\* DataFrame.sample(frac=frac) draws round(frac * len) rows
SampleSize(df, frac) == RoundHalfEven(frac[1] * Len(df), frac[2])

\* the draws sample can make: k distinct row positions, in any order
Picks(df, frac) ==
    {p \in [1..SampleSize(df, frac) -> 1..Len(df)] :
        \A i, j \in 1..SampleSize(df, frac) : i # j => p[i] # p[j]}

\* DataFrame.drop_duplicates(subset=[id_col], keep="first")
DropDuplicatesKeepFirst(df) ==
    LET first(i) == \A j \in 1..(i - 1) : df[j].id # df[i].id
        RECURSIVE Sel(_)
        Sel(i) == IF i > Len(df) THEN <<>>
                  ELSE (IF first(i) THEN <<df[i]>> ELSE <<>>) \o Sel(i + 1)
    IN  Sel(1)

\* DataFrame.drop_duplicates(subset=[id_col], keep=False): a row stays when
\* no other row carries its identifier
DropDuplicatesKeepFalse(df) ==
    LET n(id) == Cardinality({i \in 1..Len(df) : df[i].id = id})
    IN  SelectSeq(df, LAMBDA r : n(r.id) = 1)

_get_training_and_test_sets(df, frac, pick) ==
    Let([i \in 1..Len(pick) |-> df[pick[i]]],
        LAMBDA img_train :
            [train |-> img_train,
             test  |-> DropDuplicatesKeepFalse(df \o img_train)])

init_training_and_test_sets(s, pick) ==
    Let(_get_training_and_test_sets(s.data, s.training_frac, pick),
        LAMBDA sp :
            IF Len(sp.train) + Len(sp.test) # Len(s.data)
            THEN [s EXCEPT !.training_data = sp.train, !.test_data = sp.test,
                           !.err = "RuntimeError"]
            ELSE [s EXCEPT !.training_data = sp.train, !.test_data = sp.test])

\* DataFrame.empty
Empty(df) == Len(df) = 0

_ensure_train_imgdata(s, pick) ==
    IF Empty(s.training_data) THEN init_training_and_test_sets(s, pick) ELSE s

\* the draws an operation on s can need: one when its split is still to be
\* made, none otherwise
PicksOf(s) ==
    IF Empty(s.training_data) THEN Picks(s.data, s.training_frac) ELSE {<<>>}

\* numpy.stack: a ValueError for no array and for arrays of several shapes
Stack(s, df) ==
    IF Len(df) = 0 \/ Cardinality(Shapes(df)) > 1
    THEN Raise(s, "ValueError")
    ELSE [s EXCEPT !.ret = Images(df)]

train_images(s, pick) ==
    Then(_ensure_train_imgdata(s, pick),
         LAMBDA s1 : Stack(s1, s1.training_data))

train_labels(s, pick) ==
    Then(_ensure_train_imgdata(s, pick),
         LAMBDA s1 : [s1 EXCEPT !.ret = Labels(s1.training_data)])

test_images(s, pick) ==
    Then(_ensure_train_imgdata(s, pick),
         LAMBDA s1 : Stack(s1, s1.training_data))

test_labels(s, pick) ==
    Then(_ensure_train_imgdata(s, pick),
         LAMBDA s1 : [s1 EXCEPT !.ret = Labels(s1.training_data)])

(* ---------------------- colour and shape helpers ---------------------- *)

\* the conversion without its refusal of binary images
GrayscaleBodyAfterBinary(s) ==
    IF s.grayscale THEN s
    ELSE IF Len(s.data) = 0 THEN Raise(s, "IndexError")
    ELSE IF s.data[1].img.shape[Len(s.data[1].img.shape)] = 3
         THEN IF \A i \in 1..Len(s.data) : IsRgbImage(s.data[i].img)
              THEN [s EXCEPT !.data = ApplyToImages(rgb_to_grayscale, s.data),
                             !.grayscale = TRUE]
              ELSE Raise(s, "ImageDimensionError")
         ELSE s

\* the conversion proper; gray_called notes that the method was entered
GrayscaleBody(s) ==
    IF s.binary_colors THEN Raise(s, "ValueError")
    ELSE IF s.grayscale THEN s
    ELSE IF Len(s.data) = 0 THEN Raise(s, "IndexError")
    ELSE IF s.data[1].img.shape[Len(s.data[1].img.shape)] = 3
         THEN IF \A i \in 1..Len(s.data) : IsRgbImage(s.data[i].img)
              THEN [s EXCEPT !.data = ApplyToImages(rgb_to_grayscale, s.data),
                             !.grayscale = TRUE]
              ELSE Raise(s, "ImageDimensionError")
         ELSE s

images_to_grayscale_nonreversible(s) ==
    Let([s EXCEPT !.gray_called = TRUE], LAMBDA s0 : GrayscaleBody(s0))

images_to_binary(s) ==
    Then(IF ~s.grayscale THEN images_to_grayscale_nonreversible(s) ELSE s,
         LAMBDA s1 :
             [s1 EXCEPT !.data = ApplyToImages(grayscale_to_binary, s1.data),
                        !.binary_colors = TRUE])

unsqueeze_images(s) ==
    IF \A i \in 1..Len(s.data) : CanUnsqueeze(s.data[i].img)
    THEN [s EXCEPT !.data = ApplyToImages(_unsqueeze_img, s.data)]
    ELSE Raise(s, "ValueError")

squeeze_images(s) == [s EXCEPT !.data = ApplyToImages(NpSqueeze, s.data)]

\* the second half of image_shape: the shapes after the remediation.
\* ImageShape is a NamedTuple of (rows, cols): ImageShape(*shape) is a
\* TypeError for a shape of any other length
ResolveShape(s1) ==
    Let(Shapes(s1.data),
        LAMBDA shapes :
            IF Cardinality(shapes) > 1
            THEN [s1 EXCEPT !.err = "ValueError", !.ret = shapes]
            ELSE IF shapes = {} THEN Raise(s1, "IndexError")
            ELSE IF \E shape \in shapes : Len(shape) # 2
                 THEN Raise(s1, "TypeError")
                 ELSE [s1 EXCEPT !.ret = CHOOSE shape \in shapes : TRUE])

image_shape(s) ==
    Let(IF Cardinality(Shapes(s.data)) > 1 THEN squeeze_images(s) ELSE s,
        LAMBDA s1 : ResolveShape(s1))

(* ---------------------------- amplification --------------------------- *)

\* the dataset's amplify_data needs a channel dimension on every image
HasChannelDim(img) == Len(img.shape) >= 3

MaxId(df) == IF Len(df) = 0 THEN 0
             ELSE CHOOSE m \in {df[i].id : i \in 1..Len(df)} :
                      \A i \in 1..Len(df) : df[i].id <= m

\* a mirrored copy of a sample, under an identifier of its own
Mirrored(r, base) ==
    [r EXCEPT !.id = r.id + base, !.img = Img(r.img.shape, r.img.px + 10)]

\* the dataset's amplify_data: the samples and their transformed copies
DatasetAmplify(df) ==
    Let(MaxId(df),
        LAMBDA base : df \o [i \in 1..Len(df) |-> Mirrored(df[i], base)])

CanDatasetAmplify(df) == \A i \in 1..Len(df) : HasChannelDim(df[i].img)

\* dataset.amplify_data(mirror_axes): an ImageDimensionError, or the
\* amplified frame
TryDatasetAmplify(s) ==
    IF CanDatasetAmplify(s.data)
    THEN [s EXCEPT !.data = DatasetAmplify(s.data)]
    ELSE Raise(s, "ImageDimensionError")

amplify_data(s) ==
    IF CanDatasetAmplify(s.data)
    THEN TryDatasetAmplify(s)
    ELSE Then(unsqueeze_images(s),
              LAMBDA s1 : Then(TryDatasetAmplify(s1),
                               LAMBDA s2 : squeeze_images(s2)))

\* the dataset's filter(query), for the queries type == t
filter(s, t) == [s EXCEPT !.data = SelectSeq(s.data, LAMBDA r : r.type = t)]

(* ------------------------ label-partitioned views --------------------- *)

\* the three masks of DataByLabelsELPV over a frame
ByLabel(df, tolerance) ==
    [pass_  |-> SelectSeq(df, LAMBDA r : IsClose(r.q, ScoreScale, tolerance)),
     review |-> SelectSeq(df, LAMBDA r : r.q > ReviewThreshold),
     fail   |-> SelectSeq(df, LAMBDA r : IsClose(r.q, 0, tolerance))]

get_train_data_by_label(s, tolerance, pick) ==
    Then(_ensure_train_imgdata(s, pick),
         LAMBDA s1 :
             Let(ByLabel(s1.data, tolerance),
                 LAMBDA g : [s1 EXCEPT !.ret = [pass_  |-> Images(g.pass_),
                                                review |-> Images(g.review),
                                                fail   |-> Images(g.fail)]]))

get_test_data_by_label(s, tolerance, pick) ==
    Then(_ensure_train_imgdata(s, pick),
         LAMBDA s1 :
             Let(ByLabel(s1.data, tolerance),
                 LAMBDA g : [s1 EXCEPT !.ret = [pass_  |-> Labels(g.pass_),
                                                review |-> Labels(g.review),
                                                fail   |-> Labels(g.fail)]]))

(* ------------------------------ the network --------------------------- *)

\* a fresh tf.keras.Sequential: not compiled, not trained, no weights loaded
Sequential(shape) ==
    [kind |-> "Sequential", input_shape |-> shape,
     compiled |-> FALSE, fitted |-> FALSE, loaded |-> FALSE]

build(s) ==
    Then(image_shape(s),
         LAMBDA s1 : [Call(s1, "build", <<>>, <<>>)
                         EXCEPT !.net = Sequential(s1.ret), !.ret = NoRet])

_compile(s) ==
    Then(IF s.net = None THEN build(s) ELSE s,
         LAMBDA s1 : [Call(s1, "compile", <<>>, <<>>)
                         EXCEPT !.net.compiled = TRUE, !.compiled = TRUE])

\* self._model.fit(x, y, epochs): Keras refuses a network that was not
\* compiled, and the device may fail (fail is the error it raises, "none"
\* for none)
ModelFit(s, x, y, fail) ==
    Let(Call(s, "fit", x, y),
        LAMBDA s2 :
            IF ~s2.net.compiled THEN Raise(s2, "RuntimeError")
            ELSE IF fail # "none" THEN Raise(s2, fail)
            ELSE [s2 EXCEPT !.net.fitted = TRUE, !.fitted = TRUE, !.ret = NoRet])

_fit(s, pick, fail) ==
    Then(IF ~s.compiled THEN _compile(s) ELSE s,
         LAMBDA s1 :
             Then(train_images(s1, pick),
                  LAMBDA sx :
                      Then(train_labels(sx, pick),
                           LAMBDA sy : ModelFit(sy, sx.ret, sy.ret, fail))))

\* self._model.evaluate(x, y), the softmax model and its predict(x)
ModelEvaluate(s, x, y) ==
    Then(test_images(Call(s, "evaluate", x, y), <<>>),
         LAMBDA sp :
             [Call(sp, "predict", sp.ret, <<>>)
                 EXCEPT !.ret = [images |-> x, labels |-> y,
                                 predictions |-> sp.ret]])

evaluate(s, pick, fail) ==
    Then(_compile(s),
         LAMBDA s1 :
             Then(_fit(s1, pick, fail),
                  LAMBDA s2 :
                      Then(test_images(s2, pick),
                           LAMBDA sx :
                               Then(test_labels(sx, pick),
                                    LAMBDA sy : ModelEvaluate(sy, sx.ret, sy.ret)))))

\* load(): the path argument defaults to DEFAULT_ELPV_MODELPATH
load(s, model_savepath) ==
    IF model_savepath \in s.files /\ s.net # None
    THEN [Call(s, "load_weights", model_savepath, <<>>) EXCEPT !.net.loaded = TRUE]
    ELSE IF model_savepath \notin s.files THEN Raise(s, "FileNotFoundError")
    ELSE s

\* plot(predictions): reads predictions[0], then test_labels[0], then the
\* test labels and images for the plotting helpers
plot(s, predictions, pick, fail) ==
    IF Len(predictions) = 0 THEN Raise(s, "IndexError")
    ELSE Then(test_labels(s, pick),
              LAMBDA sy :
                  IF Len(sy.ret) = 0 THEN Raise(sy, "IndexError")
                  ELSE Then(test_images(sy, pick),
                            LAMBDA sx :
                                Let(Call([sx EXCEPT !.ret = NoRet], "plot",
                                         sx.ret, sy.ret),
                                    LAMBDA s1 : IF fail # "none" THEN Raise(s1, fail)
                                                ELSE s1)))

\* Model.save_weights(filepath, ...): the path is a required argument
save_weights(s, args) ==
    IF Len(args) = 0 THEN Raise(Call(s, "save_weights", <<>>, <<>>), "TypeError")
    ELSE [Call(s, "save_weights", args[1], <<>>) EXCEPT !.files = @ \cup {args[1]}]

(* ----------------------------- orchestration -------------------------- *)

\* CNNModel.__init__'s default training_frac = 0.65, as a fraction
DefaultTrainingFrac == <<13, 20>>

\* cls(dataset): a new model object on the dataset
NewModel(df, fs) ==
    [data |-> df, training_data |-> <<>>, test_data |-> <<>>,
     training_frac |-> DefaultTrainingFrac,
     grayscale |-> FALSE, binary_colors |-> FALSE,
     compiled |-> FALSE, fitted |-> FALSE, net |-> None,
     files |-> fs, gray_called |-> FALSE,
     dev |-> "default", err |-> "none", calls |-> <<>>, ret |-> NoRet]

\* with tf.device(d): body
WithDevice(s, d) == [s EXCEPT !.dev = d]

PanelTypes(df) == {df[i].type : i \in 1..Len(df)}

\* the type check of full_run_from_dataset
CheckSingleType(s) ==
    IF Cardinality(PanelTypes(s.data)) # 1 THEN Raise(s, "ValueError") ELSE s

\* the colour conversion the configured image type asks for
ConvertColors(s, img_type) ==
    IF img_type = "grayscale" THEN images_to_grayscale_nonreversible(s)
    ELSE IF img_type = "binary" THEN images_to_binary(s)
    ELSE s

\* the preparation with the type check made last, after the conversion
\* and the amplification
FullRunPrepareCheckLast(df, fs, img_type, amplify) ==
    Then(ConvertColors(NewModel(df, fs), img_type),
         LAMBDA s1 :
             Then(IF amplify THEN amplify_data(s1) ELSE s1,
                  LAMBDA s2 : CheckSingleType(s2)))

\* full_run_from_dataset up to the choice of the training branch: the type
\* check, the colour conversion and the amplification
FullRunPrepare(df, fs, img_type, amplify) ==
    Then(CheckSingleType(NewModel(df, fs)),
         LAMBDA s1 :
             Then(ConvertColors(s1, img_type),
                  LAMBDA s2 : IF amplify THEN amplify_data(s2) ELSE s2))

\* model.build(); evaluation = model.evaluate() on device d
BuildAndEvaluate(s, d, pick, fail) ==
    Let(Then(build(WithDevice(s, d)), LAMBDA s1 : evaluate(s1, pick, fail)),
        LAMBDA s2 : WithDevice(s2, "default"))

\* the handler as a retry loop: a second attempt on the CPU when the first
\* one ends with an InternalError too
FallbackRetrying(s1, pick, fail2) ==
    Let(Call([s1 EXCEPT !.err = "none"], "sleep", <<>>, <<>>),
        LAMBDA s2 :
            Let(BuildAndEvaluate(s2, "cpu:0", pick, fail2),
                LAMBDA s3 : IF s3.err = "InternalError"
                            THEN BuildAndEvaluate([s3 EXCEPT !.err = "none"],
                                                  "cpu:0", pick, fail2)
                            ELSE s3))

\* the handler of the InternalError: a pause and the attempt on the CPU
Fallback(s1, pick, fail2) ==
    Let(Call([s1 EXCEPT !.err = "none"], "sleep", <<>>, <<>>),
        LAMBDA s2 : BuildAndEvaluate(s2, "cpu:0", pick, fail2))

\* the training branch of full_run_from_dataset
FullRunTrain(s, a, pick) ==
    IF a.model_savepath \in s.files /\ ~a.force_retrain
    THEN Then(load(s, "default"), LAMBDA s1 : evaluate(s1, pick, "none"))
    ELSE IF a.gpu
    THEN Let(BuildAndEvaluate(s, "gpu:0", pick, a.fail1),
             LAMBDA s1 : IF s1.err = "InternalError"
                         THEN Fallback(s1, pick, a.fail2)
                         ELSE s1)
    ELSE BuildAndEvaluate(s, "cpu:0", pick, "none")

\* model.plot(predictions), a failure of which is raised as a RuntimeError
PlotWrapped(s, predictions, pick, fail) ==
    Let(plot(s, predictions, pick, fail),
        LAMBDA s2 : IF Ok(s2) THEN s2 ELSE Raise(s2, "RuntimeError"))

\* save_weights() and plot()
FullRunFinish(s, a, pick) ==
    Then(save_weights(s, <<>>),
         LAMBDA s1 :
             Let(PlotWrapped(s1, s.ret.predictions, pick, a.plot_fail),
                 LAMBDA s2 : [s2 EXCEPT !.ret = s.ret]))

full_run_from_dataset(df, fs, a, pick) ==
    Then(FullRunPrepare(df, fs, a.img_type, a.amplify_data),
         LAMBDA s1 :
             Then(FullRunTrain(s1, a, pick),
                  LAMBDA s2 : FullRunFinish(s2, a, pick)))

(* --------------------------- the state machine ------------------------ *)

Paths == {"default", "custom"}

\* the model object, as the record the methods act on; fs are the weight
\* files that exist when the call is made
Cur(fs) ==
    [data |-> data, training_data |-> training_data, test_data |-> test_data,
     training_frac |-> training_frac,
     grayscale |-> grayscale, binary_colors |-> binary_colors,
     compiled |-> compiled, fitted |-> fitted, net |-> net,
     files |-> fs, gray_called |-> gray_called,
     dev |-> "default", err |-> "none", calls |-> <<>>, ret |-> NoRet]

Last(op, args, r) ==
    [op |-> op, args |-> args, err |-> r.err, calls |-> r.calls, ret |-> r.ret]

\* the state after a call op(args) on the model object that ended in r
Commit(op, args, r) ==
    /\ data' = r.data
    /\ training_data' = r.training_data
    /\ test_data' = r.test_data
    /\ training_frac' = r.training_frac
    /\ grayscale' = r.grayscale
    /\ binary_colors' = r.binary_colors
    /\ compiled' = r.compiled
    /\ fitted' = r.fitted
    /\ net' = r.net
    /\ gray_called' = r.gray_called
    /\ last' = Last(op, args, r)

\* the datasets a caller hands over: quality scores 1.0, 0.0, 0.5, ...
Scores == <<ScoreScale, 0, ScoreScale \div 2>>

InitShape(pattern, i) ==
    CASE pattern = "rgb" -> <<30, 30, 3>>
      [] pattern = "flat" -> <<30, 30>>
      [] pattern = "channel" -> <<30, 30, 1>>
      [] pattern = "singleton_mix" -> IF i % 2 = 1 THEN <<30, 30, 1>> ELSE <<30, 30>>
      [] pattern = "two_sizes" -> IF i % 2 = 1 THEN <<30, 30>> ELSE <<40, 40>>
      [] OTHER -> IF i = 1 THEN <<30, 30>> ELSE <<30, 30, 3>>

InitRow(i, pattern, multi, dup) ==
    [id   |-> IF dup /\ i = 2 THEN 1 ELSE i,
     type |-> IF multi /\ i = 1 THEN "mono" ELSE "poly",
     q    |-> Scores[((i - 1) % Len(Scores)) + 1],
     img  |-> Img(InitShape(pattern, i),
                  IF InitShape(pattern, i)[Len(InitShape(pattern, i))] = 3
                  THEN 3 * i ELSE i)]

InitData(n, pattern, multi, dup) ==
    [i \in 1..n |-> InitRow(i, pattern, multi, dup)]

\* the kinds of dataset: image shapes, several panel types, a repeated id
DataKinds ==
    {<<p, FALSE, FALSE>> :
        p \in {"rgb", "flat", "channel", "singleton_mix", "two_sizes"}}
    \cup {<<"flat", FALSE, TRUE>>, <<"flat", TRUE, FALSE>>,
          <<"gray_then_rgb", TRUE, FALSE>>}

Init ==
    /\ \E n \in 0..MaxInitRows, k \in DataKinds :
           data = InitData(n, k[1], k[2], k[3])
    /\ training_data = <<>>
    /\ test_data = <<>>
    /\ training_frac = DefaultTrainingFrac
    /\ grayscale = FALSE
    /\ binary_colors = FALSE
    /\ compiled = FALSE
    /\ fitted = FALSE
    /\ net = None
    /\ gray_called = FALSE
    /\ last = [op |-> "__init__", args |-> <<>>, err |-> "none",
               calls |-> <<>>, ret |-> NoRet]

Fracs == {<<1, 4>>, <<1, 2>>, <<13, 20>>}

\* model.training_frac = f
SetTrainingFrac ==
    \E f \in Fracs \ {training_frac} :
        \E r \in {[Cur({}) EXCEPT !.training_frac = f]} :
            Commit("training_frac", f, r)

Split ==
    \E s \in {Cur({})} : \E pick \in Picks(data, training_frac) :
        \E r \in {init_training_and_test_sets(s, pick)} :
            Commit("init_training_and_test_sets", <<>>, r)

TrainImages ==
    \E s \in {Cur({})} : \E pick \in PicksOf(s) :
        \E r \in {train_images(s, pick)} : Commit("train_images", <<>>, r)

TrainLabels ==
    \E s \in {Cur({})} : \E pick \in PicksOf(s) :
        \E r \in {train_labels(s, pick)} : Commit("train_labels", <<>>, r)

TestImages ==
    \E s \in {Cur({})} : \E pick \in PicksOf(s) :
        \E r \in {test_images(s, pick)} : Commit("test_images", <<>>, r)

TestLabels ==
    \E s \in {Cur({})} : \E pick \in PicksOf(s) :
        \E r \in {test_labels(s, pick)} : Commit("test_labels", <<>>, r)

ImagesToGrayscale ==
    \E r \in {images_to_grayscale_nonreversible(Cur({}))} :
        Commit("images_to_grayscale_nonreversible", <<>>, r)

ImagesToBinary ==
    \E r \in {images_to_binary(Cur({}))} : Commit("images_to_binary", <<>>, r)

UnsqueezeImages ==
    \E r \in {unsqueeze_images(Cur({}))} : Commit("unsqueeze_images", <<>>, r)

SqueezeImages ==
    \E r \in {squeeze_images(Cur({}))} : Commit("squeeze_images", <<>>, r)

AmplifyData ==
    /\ 2 * Len(data) <= MaxRows
    /\ \E r \in {amplify_data(Cur({}))} : Commit("amplify_data", <<>>, r)

Filter ==
    \E t \in {"poly", "mono"} :
        \E r \in {filter(Cur({}), t)} : Commit("filter", t, r)

ImageShape ==
    \E r \in {image_shape(Cur({}))} : Commit("image_shape", <<>>, r)

Build == \E r \in {build(Cur({}))} : Commit("build", <<>>, r)

Compile == \E r \in {_compile(Cur({}))} : Commit("_compile", <<>>, r)

Fit ==
    \E s \in {Cur({})} : \E pick \in PicksOf(s) :
        \E r \in {_fit(s, pick, "none")} : Commit("_fit", <<>>, r)

Evaluate ==
    \E s \in {Cur({})} : \E pick \in PicksOf(s) :
        \E r \in {evaluate(s, pick, "none")} : Commit("evaluate", <<>>, r)

Load ==
    \E path \in Paths, fs \in SUBSET Paths :
        \E r \in {load(Cur(fs), path)} :
            Commit("load", [model_savepath |-> path, files |-> fs], r)

Tolerances == {<<>>, <<0>>, <<(ScoreScale \div 5) * 3>>}

\* tolerance = FLOAT_COMP_TOL if tolerance is None else tolerance
ToleranceOf(args) == IF Len(args) = 0 THEN FLOAT_COMP_TOL ELSE args[1]

GetTrainDataByLabel ==
    \E targs \in Tolerances : \E s \in {Cur({})} : \E pick \in PicksOf(s) :
        \E r \in {get_train_data_by_label(s, ToleranceOf(targs), pick)} :
            Commit("get_train_data_by_label", targs, r)

GetTestDataByLabel ==
    \E targs \in Tolerances : \E s \in {Cur({})} : \E pick \in PicksOf(s) :
        \E r \in {get_test_data_by_label(s, ToleranceOf(targs), pick)} :
            Commit("get_test_data_by_label", targs, r)

\* the predictions a caller hands to plot, none or one, and the error the
\* plotting helpers raise
PlotArgs == [n : 0..1, fail : {"none", "InternalError"}]

\* model.plot(predictions) on the model object
Plot ==
    \E a \in PlotArgs : \E s \in {Cur({})} : \E pick \in PicksOf(s) :
        \E r \in {plot(s, [i \in 1..a.n |-> i], pick, a.fail)} :
            Commit("plot", a, r)

\* the arguments of a run and what its environment does: the weight files
\* that exist, the configured image type, GPU_AVAILABLE, and the errors the
\* two devices and the plot raise
RunArgs ==
    [amplify_data : BOOLEAN, model_savepath : Paths, force_retrain : BOOLEAN,
     files : {{}, {"default"}, {"custom"}},
     img_type : {"binary", "grayscale", "rgb"}, gpu : BOOLEAN,
     fail1 : {"none", "InternalError", "ResourceExhaustedError"},
     fail2 : {"none", "InternalError"},
     plot_fail : {"none"}]

\* inputs that decide nothing are held at one value: force_retrain and the
\* path when no file exists, the device when the weights are loaded, and the
\* error of a device that the run does not use
Relevant(a) ==
    /\ a.files = {} => (a.model_savepath = "default" /\ ~a.force_retrain)
    /\ a.files # {} => a.model_savepath \in a.files
    /\ a.files = {"custom"} => ~a.force_retrain
    /\ (a.model_savepath \in a.files /\ ~a.force_retrain) => ~a.gpu
    /\ a.gpu \/ a.fail1 = "none"
    /\ a.fail1 = "InternalError" \/ a.fail2 = "none"

\* the run's own model object, as the run left it, with its evaluation
RunResult(r) ==
    [evaluation |-> r.ret, training_data |-> r.training_data,
     test_data |-> r.test_data, grayscale |-> r.grayscale,
     binary_colors |-> r.binary_colors, compiled |-> r.compiled,
     fitted |-> r.fitted, net |-> r.net]

\* full_run_from_dataset(dataset, ...) makes a model object of its own: of
\* the caller's state it changes the dataset alone, and last.ret holds the
\* run's model object as the run left it
FullRun ==
    \E a \in RunArgs :
        /\ Relevant(a)
        /\ a.amplify_data => 2 * Len(data) <= MaxRows
        /\ \E pre \in {FullRunPrepare(data, a.files, a.img_type, a.amplify_data)} :
             \E pick \in IF Ok(pre) THEN PicksOf(pre) ELSE {<<>>} :
               \E r \in {full_run_from_dataset(data, a.files, a, pick)} :
                 /\ data' = r.data
                 /\ last' = Last("full_run_from_dataset", a,
                                 [r EXCEPT !.ret = RunResult(r)])
                 /\ UNCHANGED <<training_data, test_data, training_frac,
                                grayscale, binary_colors, compiled, fitted,
                                net, gray_called>>

Next ==
    \/ SetTrainingFrac
    \/ Split
    \/ TrainImages
    \/ TrainLabels
    \/ TestImages
    \/ TestLabels
    \/ ImagesToGrayscale
    \/ ImagesToBinary
    \/ UnsqueezeImages
    \/ SqueezeImages
    \/ AmplifyData
    \/ Filter
    \/ ImageShape
    \/ Build
    \/ Compile
    \/ Fit
    \/ Evaluate
    \/ Load
    \/ GetTrainDataByLabel
    \/ GetTestDataByLabel
    \/ Plot
    \/ FullRun

Spec == Init /\ [][Next]_vars

(* The whole interface above is too large to enumerate at once; each of  *)
(* the specifications below is the program driven through one part of    *)
(* its interface, from the same initial states.                          *)

\* the split, over the datasets that filtering and amplification produce
NextSplit == SetTrainingFrac \/ Split \/ AmplifyData \/ Filter

SpecSplit == Init /\ [][NextSplit]_vars

\* the colour and shape helpers
NextImages ==
    \/ ImagesToGrayscale
    \/ ImagesToBinary
    \/ UnsqueezeImages
    \/ SqueezeImages
    \/ AmplifyData
    \/ Filter
    \/ ImageShape

SpecImages == Init /\ [][NextImages]_vars

\* the cached split and the views read through it, under data mutations
NextViews ==
    \/ TrainImages
    \/ TrainLabels
    \/ TestImages
    \/ TestLabels
    \/ GetTrainDataByLabel
    \/ GetTestDataByLabel
    \/ Plot
    \/ ImagesToBinary
    \/ UnsqueezeImages
    \/ SqueezeImages
    \/ AmplifyData

SpecViews == Init /\ [][NextViews]_vars

\* the network: build, compile, fit, evaluate, load
NextNet == Build \/ Compile \/ Fit \/ Evaluate \/ Load

SpecNet == Init /\ [][NextNet]_vars

\* the orchestration, on the datasets as handed over, as filtered and as
\* earlier runs left them (a run follows a run after a call of filter)
NextRun == (last.op # "full_run_from_dataset" /\ FullRun) \/ Filter

SpecRun == Init /\ [][NextRun]_vars

(* ------------------------------- claims ------------------------------- *)

Ids(df) == {df[i].id : i \in 1..Len(df)}

UniqueIds(df) == \A i, j \in 1..Len(df) : df[i].id = df[j].id => i = j

\* the number of rows of df that carry the identifier id
CountId(df, id) == Cardinality({i \in 1..Len(df) : df[i].id = id})

\* the number of rows of df equal to r
CountRow(df, r) == Cardinality({i \in 1..Len(df) : df[i] = r})

\* two frames hold the same rows, each as often
SameRows(df1, df2) ==
    /\ Len(df1) = Len(df2)
    /\ \A r \in Range(df1) \cup Range(df2) : CountRow(df1, r) = CountRow(df2, r)

Fns(calls) == [i \in 1..Len(calls) |-> calls[i].fn]

\* C1: after init_training_and_test_sets on a collection with unique
\* identifiers no error is raised and every row of the collection is in
\* exactly one of training_data and test_data, which share no identifier
\* and together have as many rows as the collection; and on any collection
\* the call raises a RuntimeError exactly when the two row counts do not add
\* up to the collection's.
C1_SplitCoversEveryRowOnce ==
    last.op = "init_training_and_test_sets" =>
        /\ UniqueIds(data) =>
              /\ last.err = "none"
              /\ \A i \in 1..Len(data) :
                    CountRow(training_data, data[i]) + CountRow(test_data, data[i]) = 1
              /\ Ids(training_data) \cap Ids(test_data) = {}
              /\ Ids(training_data) \cup Ids(test_data) = Ids(data)
              /\ Len(training_data) + Len(test_data) = Len(data)
        /\ (last.err = "RuntimeError") <=>
              (Len(training_data) + Len(test_data) # Len(data))
        /\ last.err \in {"none", "RuntimeError"}

\* C1's case: a split of an amplified collection with unique identifiers
\* into a training part and a test part, neither of them empty
C1_Witness ==
    /\ last.op = "init_training_and_test_sets"
    /\ UniqueIds(data)
    /\ Len(data) = 4
    /\ Len(training_data) >= 1
    /\ Len(test_data) >= 1

\* C2: evaluate measures and predicts on the test subset: when the split
\* has a test part, the images and labels it hands to the network's
\* evaluate and predict are those of test_data, not those of training_data.
C2_EvaluateUsesTestSubset ==
    (last.op = "evaluate" /\ last.err = "none" /\ test_data # <<>>) =>
        \A i \in 1..Len(last.calls) :
            /\ last.calls[i].fn = "evaluate" =>
                  /\ last.calls[i].x = Images(test_data)
                  /\ last.calls[i].y = Labels(test_data)
            /\ last.calls[i].fn = "predict" =>
                  last.calls[i].x = Images(test_data)

\* the inputs of a run: the weights file exists at model_savepath
WeightsExist(a) == a.model_savepath \in a.files

\* C3: a run in the default configuration with the weights file at
\* model_savepath and force_retrain false, on a single-type dataset of
\* images of one two-dimensional shape, loads the weights into the network
\* and evaluates, and never invokes build or fit.
C3_SavedWeightsSkipTraining ==
    (/\ last.op = "full_run_from_dataset"
     /\ WeightsExist(last.args)
     /\ ~last.args.force_retrain
     /\ last.args.img_type = "binary"
     /\ Cardinality(PanelTypes(data)) = 1
     /\ Shapes(data) = {<<30, 30>>}) =>
        /\ \A i \in 1..Len(last.calls) : last.calls[i].fn \notin {"build", "fit"}
        /\ \E i \in 1..Len(last.calls) : last.calls[i].fn = "evaluate"
        /\ \E i \in 1..Len(last.calls) : last.calls[i].fn = "load_weights"

\* the run's model object is as the constructor left it
RunModelUntouched(res) ==
    /\ res.training_data = <<>>
    /\ res.test_data = <<>>
    /\ ~res.grayscale
    /\ ~res.binary_colors
    /\ ~res.compiled
    /\ ~res.fitted
    /\ res.net = None

\* C4: a run on a dataset whose labels hold a number of distinct panel types
\* other than one raises a ValueError with the dataset unchanged and with
\* no conversion, amplification, build, compile, fit, evaluate, save or
\* plot made.
C4_MultiTypeFailsFirst ==
    [][(last'.op = "full_run_from_dataset" /\ Cardinality(PanelTypes(data)) # 1) =>
          /\ last'.err = "ValueError"
          /\ last'.calls = <<>>
          /\ data' = data
          /\ RunModelUntouched(last'.ret)]_vars

\* C4's case: a run on RGB images of two panel types, with a conversion
\* and the amplification asked for, has ended
C4_Witness ==
    /\ last.op = "full_run_from_dataset"
    /\ Cardinality(PanelTypes(data)) = 2
    /\ \E i \in 1..Len(data) : IsRgbImage(data[i].img)
    /\ last.args.img_type = "binary"
    /\ last.args.amplify_data
    /\ last.err = "ValueError"

\* the calls of a log that the claim on the order of a run names
Steps(calls) ==
    SelectSeq(calls, LAMBDA c : c.fn \in {"build", "compile", "fit", "evaluate",
                                          "save_weights", "plot", "load_weights"})

\* C5: a run in the default configuration on a single-type dataset of
\* images of one shape, with no weights file and GPU_AVAILABLE false, makes
\* build, compile, fit and evaluate on cpu:0, then saves the weights, then
\* plots, and raises nothing.
C5_CpuRunCompletes ==
    (/\ last.op = "full_run_from_dataset"
     /\ last.args.files = {}
     /\ ~last.args.gpu
     /\ last.args.img_type = "binary"
     /\ Cardinality(PanelTypes(data)) = 1
     /\ Cardinality(Shapes(data)) = 1) =>
        /\ last.err = "none"
        /\ Fns(Steps(last.calls)) =
              <<"build", "compile", "fit", "evaluate", "save_weights", "plot">>
        /\ \A i \in 1..Len(last.calls) :
              last.calls[i].fn \in {"build", "compile", "fit", "evaluate"} =>
                  last.calls[i].dev = "cpu:0"

\* a step leaves every image and every flag of the model object as it was
ImagesAndFlagsUnchanged ==
    /\ data' = data
    /\ grayscale' = grayscale
    /\ binary_colors' = binary_colors
    /\ compiled' = compiled
    /\ fitted' = fitted

\* C6 as stated: a call of images_to_grayscale_nonreversible in any state
\* reached after a first call leaves every image and every flag unchanged,
\* and a call after the binary conversion raises a ValueError and leaves
\* them unchanged.
C6_GrayscaleIdempotentAnywhere ==
    [][last'.op = "images_to_grayscale_nonreversible" =>
          /\ gray_called => ImagesAndFlagsUnchanged
          /\ binary_colors => (last'.err = "ValueError" /\ ImagesAndFlagsUnchanged)]_vars

\* C6 amended: a call of images_to_grayscale_nonreversible that directly
\* follows a call of it, or is made with the grayscale flag set, leaves
\* every image and every flag unchanged, and a call after the binary
\* conversion raises a ValueError and leaves them unchanged.
C6_GrayscaleIdempotent ==
    [][last'.op = "images_to_grayscale_nonreversible" =>
          /\ (grayscale \/ last.op = "images_to_grayscale_nonreversible") =>
                ImagesAndFlagsUnchanged
          /\ binary_colors => (last'.err = "ValueError" /\ ImagesAndFlagsUnchanged)]_vars

\* C6's case: RGB images were converted to grayscale and then to binary,
\* and a further call of the grayscale conversion was refused
C6_Witness ==
    /\ last.op = "images_to_grayscale_nonreversible"
    /\ last.err = "ValueError"
    /\ grayscale
    /\ binary_colors
    /\ gray_called
    /\ data # <<>>

\* C7: image_shape returns the one shape the images share and leaves them
\* as they are; when the shapes differ it squeezes the images once and
\* returns the one shape they then share, or raises a ValueError that names
\* every shape that remains.
C7_ImageShapeResolves ==
    [][(last'.op = "image_shape" /\ data # <<>>) =>
          /\ Cardinality(Shapes(data)) = 1 =>
                /\ last'.err = "none"
                /\ {last'.ret} = Shapes(data)
                /\ data' = data
          /\ Cardinality(Shapes(data)) > 1 =>
                /\ data' = ApplyToImages(NpSqueeze, data)
                /\ Cardinality(Shapes(data')) = 1 =>
                      (last'.err = "none" /\ {last'.ret} = Shapes(data'))
                /\ Cardinality(Shapes(data')) > 1 =>
                      (last'.err = "ValueError" /\ last'.ret = Shapes(data'))]_vars

\* the rows of df whose score is within t of v
Within(df, v, t) == SelectSeq(df, LAMBDA r : Abs(r.q - v) <= t)

\* C8: the label-partitioned views are taken from the split: the pass,
\* review and fail groups of get_train_data_by_label are the samples of
\* training_data within the tolerance of 1.0, above 0.01 and within the
\* tolerance of 0.0, and those of get_test_data_by_label the samples of
\* test_data.
C8_ViewsOfTheSplit ==
    /\ (last.op = "get_train_data_by_label" /\ last.err = "none") =>
          /\ last.ret.pass_ = Images(Within(training_data, ScoreScale,
                                            ToleranceOf(last.args)))
          /\ last.ret.review = Images(SelectSeq(training_data,
                                                LAMBDA r : r.q > ReviewThreshold))
          /\ last.ret.fail = Images(Within(training_data, 0, ToleranceOf(last.args)))
    /\ (last.op = "get_test_data_by_label" /\ last.err = "none") =>
          /\ last.ret.pass_ = Labels(Within(test_data, ScoreScale,
                                            ToleranceOf(last.args)))
          /\ last.ret.review = Labels(SelectSeq(test_data,
                                                LAMBDA r : r.q > ReviewThreshold))
          /\ last.ret.fail = Labels(Within(test_data, 0, ToleranceOf(last.args)))

\* C9: after a read of train_images, train_labels, test_images or
\* test_labels of a dataset with unique identifiers, the cached subsets
\* hold exactly the current rows of the dataset, with their current images,
\* whatever conversion, amplification, squeeze or unsqueeze came before.
C9_CacheFollowsData ==
    (/\ last.op \in {"train_images", "train_labels", "test_images", "test_labels"}
     /\ last.err = "none"
     /\ UniqueIds(data)) =>
        SameRows(training_data \o test_data, data)

\* C10: whenever the compiled flag is set, the current network object is a
\* compiled one, and every fit that _fit or evaluate made was made on a
\* compiled network.
C10_CompiledFlagMeansCompiledNetwork ==
    /\ compiled => (net # None /\ net.compiled)
    /\ (/\ last.op \in {"_fit", "evaluate"}
        /\ \E i \in DOMAIN last.calls : last.calls[i].fn = "fit") => net.compiled

\* the names of the calls of a log that were made on device d
FnsOn(calls, d) == Fns(SelectSeq(calls, LAMBDA c : c.dev = d))

\* the calls of one attempt, in their order: build, then those of evaluate
AttemptCalls == <<"build", "compile", "fit", "evaluate", "predict">>

\* s is the beginning of t
IsPrefix(s, t) == Len(s) <= Len(t) /\ s = SubSeq(t, 1, Len(s))

\* the attempt on the GPU reached the fit, where the device fails with e
FirstAttemptFailedWith(e) ==
    /\ last.args.fail1 = e
    /\ IsPrefix(<<"build", "compile", "fit">>, FnsOn(last.calls, "gpu:0"))

\* C11: in a run with GPU_AVAILABLE true and no usable saved weights, the
\* first call on the network is a build on the accelerated device and that
\* attempt is made once; the CPU is used exactly when the attempt on the GPU
\* ended with an InternalError, after one pause, for one attempt; another
\* error of the first attempt, and any error of the attempt on the CPU,
\* ends the run with that error and no further call, so build is called at
\* most twice.
C11_OneFallbackAttempt ==
    (/\ last.op = "full_run_from_dataset"
     /\ last.args.gpu
     /\ ~(WeightsExist(last.args) /\ ~last.args.force_retrain)) =>
        /\ last.calls # <<>> =>
              (last.calls[1].fn = "build" /\ last.calls[1].dev = "gpu:0")
        /\ IsPrefix(FnsOn(last.calls, "gpu:0"), AttemptCalls)
        /\ IsPrefix(FnsOn(last.calls, "cpu:0"), AttemptCalls)
        /\ \A i \in 1..Len(last.calls) :
              last.calls[i].fn \in Range(AttemptCalls) =>
                  last.calls[i].dev \in {"gpu:0", "cpu:0"}
        /\ \A i, j \in 1..Len(last.calls) :
              (last.calls[i].dev = "gpu:0" /\ last.calls[j].dev = "cpu:0") => i < j
        /\ (FnsOn(last.calls, "cpu:0") # <<>>) <=>
              FirstAttemptFailedWith("InternalError")
        /\ Cardinality({i \in 1..Len(last.calls) : last.calls[i].fn = "sleep"}) =
              (IF FirstAttemptFailedWith("InternalError") THEN 1 ELSE 0)
        /\ FirstAttemptFailedWith("ResourceExhaustedError") =>
              /\ last.err = "ResourceExhaustedError"
              /\ Fns(last.calls) = <<"build", "compile", "fit">>
        /\ (FirstAttemptFailedWith("InternalError")
              /\ last.args.fail2 = "InternalError") =>
              /\ last.err = "InternalError"
              /\ Fns(last.calls) = <<"build", "compile", "fit", "sleep",
                                     "build", "compile", "fit">>
        /\ Cardinality({i \in 1..Len(last.calls) : last.calls[i].fn = "build"}) <= 2

\* C11's case: the attempt on the GPU ended with an InternalError, and the
\* one attempt on the CPU ended with an InternalError that ended the run
C11_Witness ==
    /\ last.op = "full_run_from_dataset"
    /\ last.args.gpu
    /\ last.args.force_retrain
    /\ last.args.fail1 = "InternalError"
    /\ last.args.fail2 = "InternalError"
    /\ last.err = "InternalError"
    /\ FnsOn(last.calls, "gpu:0") = <<"build", "compile", "fit">>
    /\ FnsOn(last.calls, "cpu:0") = <<"build", "compile", "fit">>

====
